---- MODULE Spec2Model ----
(***************************************************************************)
(* go-staticfiles: the collect / post-process / manifest pipeline of       *)
(* Storage and its http.FileSystem adapter, over an explicit file system.  *)
(* Paths and file contents are strings; the path, string and regexp        *)
(* library calls the code makes are computed character by character.       *)
(***************************************************************************)
EXTENDS Integers, Sequences, FiniteSets, TLC

VARIABLES
    inFS,              \* input trees: path of a regular file -> its bytes
    outFS,             \* regular files under OutputDir: path -> bytes
    outDirs,           \* the directories that exist at or under OutputDir
    manifest,          \* the document OutputDir/staticfiles.json
    FilesMap,          \* Storage.FilesMap: RelPath -> StaticFile
    inputDirs,         \* Storage.inputDirs
    postProcessRules,  \* Storage.postProcessRules
    Enabled,           \* Storage.Enabled
    OutputDirList,     \* Storage.OutputDirList
    run,               \* where the CollectStatic call in progress stands
    log,               \* the steps of the current or latest CollectStatic run
    ret,               \* what the last call returned to its caller
    hist,              \* the last two finished CollectStatic runs, the latest first
    budget             \* the runs begun, the events so far (input edits, faults,
                       \* reloads of the manifest) and the faults among them

vars == <<inFS, outFS, outDirs, manifest, FilesMap, inputDirs, postProcessRules,
          Enabled, OutputDirList, run, log, ret, hist, budget>>

----------------------------------------------------------------------------
\* Bounds of the exploration.
MaxRuns == 2
MaxEvents == 1
MaxDirs == 2
MaxRules == 2
MaxServeRuns == 1

----------------------------------------------------------------------------
\* Package strings.

Char(s, i) == SubSeq(s, i, i)

HasPrefix(s, p) == Len(p) <= Len(s) /\ SubSeq(s, 1, Len(p)) = p

HasSuffix(s, p) == Len(p) <= Len(s) /\ SubSeq(s, Len(s) - Len(p) + 1, Len(s)) = p

TrimPrefix(s, p) == IF HasPrefix(s, p) THEN SubSeq(s, Len(p) + 1, Len(s)) ELSE s

TrimSuffix(s, p) == IF HasSuffix(s, p) THEN SubSeq(s, 1, Len(s) - Len(p)) ELSE s

\* The first position >= i at which sub occurs in s, 0 when there is none.
Index(s, sub, i) ==
    LET hits == {j \in i..(Len(s) - Len(sub) + 1) : SubSeq(s, j, j + Len(sub) - 1) = sub}
    IN  IF hits = {} THEN 0 ELSE CHOOSE j \in hits : \A k \in hits : j <= k

Contains(s, sub) == Index(s, sub, 1) # 0

\* The last position <= i at which the character c occurs in s, 0 when none.
LastIndexChar(s, c, i) ==
    LET hits == {j \in 1..i : Char(s, j) = c}
    IN  IF hits = {} THEN 0 ELSE CHOOSE j \in hits : \A k \in hits : j >= k

\* strings.Replace(s, old, new, 1): the first occurrence only.
ReplaceFirst(s, old, new) ==
    LET at(i) == IF i = 0 THEN s
                 ELSE SubSeq(s, 1, i - 1) \o new \o SubSeq(s, i + Len(old), Len(s))
    IN  at(Index(s, old, 1))

----------------------------------------------------------------------------
\* Package path/filepath, with "/" as the separator.

RECURSIVE SplitPath(_)
SplitPath(s) ==
    LET at(i) == IF i = 0 THEN <<s>>
                 ELSE <<SubSeq(s, 1, i - 1)>> \o SplitPath(SubSeq(s, i + 1, Len(s)))
    IN  at(Index(s, "/", 1))

RECURSIVE CleanStack(_, _, _)
CleanStack(segs, stack, rooted) ==
    IF Len(segs) = 0 THEN stack
    ELSE LET h == Head(segs)
             t == Tail(segs)
         IN  IF h = "" \/ h = "." THEN CleanStack(t, stack, rooted)
             ELSE IF h = ".."
             THEN IF Len(stack) > 0 /\ stack[Len(stack)] # ".."
                  THEN CleanStack(t, SubSeq(stack, 1, Len(stack) - 1), rooted)
                  ELSE IF rooted THEN CleanStack(t, stack, rooted)
                  ELSE CleanStack(t, Append(stack, ".."), rooted)
             ELSE CleanStack(t, Append(stack, h), rooted)

RECURSIVE JoinSegs(_)
JoinSegs(segs) ==
    IF Len(segs) = 0 THEN ""
    ELSE IF Len(segs) = 1 THEN segs[1]
    ELSE segs[1] \o "/" \o JoinSegs(Tail(segs))

Clean(p) ==
    IF p = "" THEN "."
    ELSE LET rooted == Char(p, 1) = "/"
             lexical(body) == IF rooted THEN "/" \o body
                              ELSE IF body = "" THEN "." ELSE body
         IN  lexical(JoinSegs(CleanStack(SplitPath(p), <<>>, rooted)))

Join(a, b) ==
    IF a = "" /\ b = "" THEN ""
    ELSE Clean(IF a = "" THEN b ELSE IF b = "" THEN a ELSE a \o "/" \o b)

Dir(p) == Clean(SubSeq(p, 1, LastIndexChar(p, "/", Len(p))))

RECURSIVE TrimSlashes(_)
TrimSlashes(p) ==
    IF Len(p) > 0 /\ Char(p, Len(p)) = "/"
    THEN TrimSlashes(SubSeq(p, 1, Len(p) - 1))
    ELSE p

Base(p) ==
    IF p = "" THEN "."
    ELSE LET last(q) == IF q = "" THEN "/"
                         ELSE SubSeq(q, LastIndexChar(q, "/", Len(q)) + 1, Len(q))
         IN  last(TrimSlashes(p))

Ext(p) ==
    LET slash == LastIndexChar(p, "/", Len(p))
        dot == LastIndexChar(p, ".", Len(p))
    IN  IF dot > slash THEN SubSeq(p, dot, Len(p)) ELSE ""

----------------------------------------------------------------------------
\* crypto/md5 and encoding/hex: the digest is a function of the bytes alone.
\* It is computed as a polynomial checksum of fixed width and written in hex.

Alphabet == "abcdefghijklmnopqrstuvwxyzABCDEFGHIJKLMNOPQRSTUVWXYZ0123456789_-.:;/\\'(){}@=* ,#"

HexDigits == "0123456789abcdef"

SumWidth == 65536

\* The hex digits the digest is written in.
SumDigits == 4

\* The checksum of the first n bytes of s.
RECURSIVE SumUpTo(_, _)
SumUpTo(s, n) ==
    IF n = 0 THEN 7
    ELSE (SumUpTo(s, n - 1) * 31 + Index(Alphabet, Char(s, n), 1) + 1) % SumWidth

Md5Sum(s) == SumUpTo(s, Len(s))

RECURSIVE EncodeToString(_, _)
EncodeToString(n, digits) ==
    IF digits = 0 THEN ""
    ELSE EncodeToString(n \div 16, digits - 1) \o Char(HexDigits, (n % 16) + 1)

\* Storage.hashFilename(path) for a file holding bytes: prefix + "." + sum + ext.
hashFilename(path, bytes) ==
    LET ext == Ext(path)
        prefix == TrimSuffix(path, ext)
        sum == EncodeToString(Md5Sum(bytes), SumDigits)
    IN  prefix \o "." \o sum \o ext

----------------------------------------------------------------------------
\* encoding/json: how a Go string is written into a document and read back.
\* Paths are byte strings; "^" stands for a byte that is not valid UTF-8 (0xE9
\* alone, the e-acute of a Latin-1 file name) and "?" for the rune U+FFFD.

InvalidByte == "^"

ReplacementRune == "?"

\* json.Marshal of a string, without the surrounding quotes: quotes and
\* backslashes are escaped, invalid UTF-8 is coerced to the replacement rune.
RECURSIVE EncodeString(_)
EncodeString(s) ==
    IF s = "" THEN ""
    ELSE (IF Char(s, 1) = "\"" THEN "\\\""
          ELSE IF Char(s, 1) = "\\" THEN "\\\\"
          ELSE IF Char(s, 1) = InvalidByte THEN "\\ufffd"
          ELSE Char(s, 1)) \o EncodeString(SubSeq(s, 2, Len(s)))

\* json.Unmarshal of a JSON string the encoder above can have written.
RECURSIVE DecodeString(_)
DecodeString(s) ==
    IF s = "" THEN ""
    ELSE IF Char(s, 1) # "\\" THEN Char(s, 1) \o DecodeString(SubSeq(s, 2, Len(s)))
    ELSE IF SubSeq(s, 2, 6) = "ufffd"
    THEN ReplacementRune \o DecodeString(SubSeq(s, 7, Len(s)))
    ELSE Char(s, 2) \o DecodeString(SubSeq(s, 3, Len(s)))

----------------------------------------------------------------------------
\* Package regexp: the three urlPatterns and ignoreRegex of postprocess.go.
\* A match is [s |-> first position, e |-> last position, url |-> the group];
\* s = 0 when the pattern matches nowhere at or after the given position.

Quotes == {"'", "\""}

Spaces == {" ", "\t", "\n", "\r", "\f"}

WordChars == {Char(Alphabet, i) : i \in 1..63}

UrlClass == WordChars \cup {"-", "\\", "."}

NoMatch == [s |-> 0, e |-> 0, url |-> ""]

\* From position p: the first p' >= p that closes a lazy (.*?) followed by
\* ['"]?\) ; 0 when a line break or the end of the text comes first.
RECURSIVE CloseParen(_, _)
CloseParen(t, p) ==
    IF p > Len(t) \/ Char(t, p) = "\n" THEN 0
    ELSE IF Char(t, p) \in Quotes /\ p < Len(t) /\ Char(t, p + 1) = ")" THEN p
    ELSE IF Char(t, p) = ")" THEN p
    ELSE CloseParen(t, p + 1)

\* url\(['"]?(?P<url>.*?)['"]?\)
RECURSIVE FindUrl(_, _)
FindUrl(t, from) ==
    LET group(i, q, p) == [s |-> i, e |-> IF Char(t, p) = ")" THEN p ELSE p + 1,
                           url |-> SubSeq(t, q, p - 1)]
        \* the opening quote, when it cannot be closed, belongs to the group
        unquoted(i, p0) == IF p0 # 0 THEN group(i, i + 4, p0) ELSE FindUrl(t, i + 1)
        quoted(i, q, p) == IF p # 0 THEN group(i, q, p)
                           ELSE unquoted(i, IF q = i + 5 THEN CloseParen(t, i + 4) ELSE 0)
        open(i, q) == quoted(i, q, CloseParen(t, q))
        at(i) == IF i = 0 THEN NoMatch
                 ELSE open(i, IF i + 4 <= Len(t) /\ Char(t, i + 4) \in Quotes
                              THEN i + 5 ELSE i + 4)
    IN  at(Index(t, "url(", from))

RECURSIVE SkipSpaces(_, _)
SkipSpaces(t, p) ==
    IF p <= Len(t) /\ Char(t, p) \in Spaces THEN SkipSpaces(t, p + 1) ELSE p

\* The first quote at or after p on the same line, 0 when there is none.
RECURSIVE CloseQuote(_, _)
CloseQuote(t, p) ==
    IF p > Len(t) \/ Char(t, p) = "\n" THEN 0
    ELSE IF Char(t, p) \in Quotes THEN p
    ELSE CloseQuote(t, p + 1)

\* @import\s*['"](?P<url>.*?)['"]
RECURSIVE FindImport(_, _)
FindImport(t, from) ==
    LET close(i, q, p) == IF p # 0
                          THEN [s |-> i, e |-> p, url |-> SubSeq(t, q + 1, p - 1)]
                          ELSE FindImport(t, i + 1)
        open(i, q) == close(i, q, IF q <= Len(t) /\ Char(t, q) \in Quotes
                                  THEN CloseQuote(t, q + 1) ELSE 0)
        at(i) == IF i = 0 THEN NoMatch ELSE open(i, SkipSpaces(t, i + 7))
    IN  at(Index(t, "@import", from))

\* The last position of the run of UrlClass characters that starts at p.
RECURSIVE ClassRun(_, _)
ClassRun(t, p) ==
    IF p <= Len(t) /\ Char(t, p) \in UrlClass THEN ClassRun(t, p + 1) ELSE p - 1

\* sourceMappingURL=(?P<url>[-\\.\w]+)
RECURSIVE FindSourceMap(_, _)
FindSourceMap(t, from) ==
    LET group(i, e) == IF e >= i + 17
                       THEN [s |-> i, e |-> e, url |-> SubSeq(t, i + 17, e)]
                       ELSE FindSourceMap(t, i + 1)
        at(i) == IF i = 0 THEN NoMatch ELSE group(i, ClassRun(t, i + 17))
    IN  at(Index(t, "sourceMappingURL=", from))

urlPatterns == <<"url", "import", "sourceMappingURL">>

FindMatch(regex, t, from) ==
    CASE regex = "url" -> FindUrl(t, from)
      [] regex = "import" -> FindImport(t, from)
      [] OTHER -> FindSourceMap(t, from)

\* findSubmatchGroup(regex, s, "url"): the group of the first match in s.
findSubmatchGroup(regex, s) == FindMatch(regex, s, 1).url

\* The last position of the run of word characters that starts at p.
RECURSIVE WordRun(_, _)
WordRun(t, p) ==
    IF p <= Len(t) /\ Char(t, p) \in WordChars THEN WordRun(t, p + 1) ELSE p - 1

\* ignoreRegex.MatchString(url): ^\w+:
ignoreRegex(url) ==
    LET colon(e) == e >= 1 /\ e < Len(url) /\ Char(url, e + 1) = ":"
    IN  colon(WordRun(url, 1))


----------------------------------------------------------------------------
\* The file system the program runs on.

\* NewStorage("out") keeps filepath.ToSlash(filepath.Clean(outputDir)) + "/".
OutputDirArg == "out"

normalizeDirPath(path) == Clean(path) \o "/"

OutputDir == normalizeDirPath(OutputDirArg)

ManifestFilename == "staticfiles.json"

ManifestVersion == 1

\* The directories handed to AddInputDir, as the caller writes them.
InputDirArgs == {"in1", "in2/"}

\* Every path a regular file of the input trees may have, in the order
\* filepath.Walk visits them (lexical within each directory).
InPathSeq == <<"in1/css/img/pix.png", "in1/css/style.css", "in1/css/style.css.map",
               "in1/css/url", "in1/css/x.css", "in1/css/x:pix.png",
               "in1/img/img", "in1/img/pix.png",
               "in2/img/caf^.png", "in2/img/pix.png">>

InPaths == {InPathSeq[i] : i \in 1..Len(InPathSeq)}

InputRoots == {normalizeDirPath(a) : a \in InputDirArgs}

\* The keys the File Map can get: a path minus the input root it lies under.
RelPaths == {TrimPrefix(p, d) : p \in InPaths, d \in {r \in InputRoots : \E q \in InPaths : HasPrefix(q, r)}} \ InPaths

\* Stylesheets: a resolvable relative reference, a broken one, both, none.
CssRef == "a{b:url('../img/pix.png')}"

CssBroken == "a{b:url(nope.png)}"

CssBoth == "@import 'x.css';a{b:url(../img/pix.png)}"

CssPlain == "a{c:red}"

CssTexts == {CssRef, CssBroken, CssBoth, CssPlain}

\* Images: the truncated file and the rewritten one of TestPostProcess_UpdateFile.
ImageBytes == {"", "abc"}

BytesOf(path) == IF Ext(path) = ".css" THEN CssTexts ELSE ImageBytes

EmptyMap == [k \in {} |-> ""]

\* A map assignment that keeps the entry a key already has.
PutIfAbsent(f, k, v) == [x \in DOMAIN f \cup {k} |-> IF x \in DOMAIN f THEN f[x] ELSE v]

Put(f, k, v) == [x \in DOMAIN f \cup {k} |-> IF x = k THEN v ELSE f[x]]

Without(f, k) == [x \in DOMAIN f \ {k} |-> f[x]]

\* A directory and every directory above it (what os.MkdirAll creates).
RECURSIVE Ancestors(_)
Ancestors(d) ==
    IF d = "." \/ d = "/" \/ d = "" THEN {} ELSE {d} \cup Ancestors(Dir(d))

\* The manifest document: absent, well-formed JSON, or cut short by a failed write.
NoDoc == [state |-> "absent", paths |-> EmptyMap, version |-> 0]

CorruptDoc == [state |-> "corrupt", paths |-> EmptyMap, version |-> 0]

\* Environment faults: the system call that fails and the file it fails on.
NoFault == [kind |-> "none", target |-> ""]

BeginFaultKinds == {"mkroot"}

CollectFaultKinds == {"hash", "stat", "mkdir", "open", "copy", "sync"}

RuleFaultKinds == {"read", "write", "rule"}

SaveFaultKinds == {"saveopen", "savewrite"}

FaultsAt(kinds, target) == {NoFault} \cup {[kind |-> k, target |-> target] : k \in kinds}


----------------------------------------------------------------------------
\* One CollectStatic run, as a function of the world w it starts from:
\*   w.out, w.dirs, w.man   the output tree and the manifest document
\*   w.fm                   Storage.FilesMap
\*   w.log                  the steps taken so far
\*   w.err                  the error being returned, "" for nil
\*   w.fired                whether the environment fault has happened

Event(ev, a, b) == [ev |-> ev, a |-> a, b |-> b]

Note(w, ev, a, b) == [w EXCEPT !.log = Append(@, Event(ev, a, b))]

\* A failure that also cuts the manifest document short.
FailAndTruncate(w, e) == [w EXCEPT !.err = e, !.fired = TRUE, !.man = CorruptDoc]

Fail(w, e) == [w EXCEPT !.err = e, !.fired = TRUE]

\* Storage.copyFile(src, dst): create or truncate dst, copy, sync.
copyFile(w, src, dst, fault) ==
    LET bytes == inFS[src]
        hit(k) == fault.kind = k /\ fault.target = src
        w1 == Note(w, "copy", src, dst)
    IN  IF hit("open") THEN Fail(w1, "open")
        ELSE IF hit("copy")
        THEN Fail([w1 EXCEPT !.out = Put(@, dst, SubSeq(bytes, 1, Len(bytes) \div 2))],
                  "copy")
        ELSE IF hit("sync") THEN Fail([w1 EXCEPT !.out = Put(@, dst, bytes)], "sync")
        ELSE [w1 EXCEPT !.out = Put(@, dst, bytes)]

\* A walk function that copies whether or not the destination exists.
collectFileAlways(w, dir, path, fault) ==
    LET w1 == Note(w, "hash", path, "")
        insert(v, sf) == Note([v EXCEPT !.fm = Put(@, sf.RelPath, sf)],
                              "insert", sf.RelPath, sf.StoragePath)
        store(copied, sf) == IF copied.err # "" THEN copied ELSE insert(copied, sf)
        visit(storageDir, sf) ==
            store(copyFile([w1 EXCEPT !.dirs = @ \cup Ancestors(storageDir)],
                           path, sf.StoragePath, fault), sf)
        file(relPath, storageDir, storagePath, root) ==
            visit(storageDir,
                  [Path |-> path, RelPath |-> relPath, StoragePath |-> storagePath,
                   StorageRelPath |-> TrimPrefix(storagePath, root)])
        hashed(hashedPath, relPath, storageDir, root) ==
            file(relPath, storageDir, Join(storageDir, Base(hashedPath)), root)
    IN  hashed(hashFilename(path, inFS[path]), TrimPrefix(path, dir),
               Join(OutputDir, Dir(TrimPrefix(path, dir))), OutputDir)

\* A walk function that inserts the entry only after a copy.
collectFileInsertOnCopy(w, dir, path, fault) ==
    LET hit(k) == fault.kind = k /\ fault.target = path
        w1 == Note(w, "hash", path, "")
        insert(v, sf) == Note([v EXCEPT !.fm = Put(@, sf.RelPath, sf)],
                              "insert", sf.RelPath, sf.StoragePath)
        store(copied, sf) == IF copied.err # "" THEN copied ELSE insert(copied, sf)
        visit(storageDir, sf) ==
            IF hit("stat") THEN [w1 EXCEPT !.fired = TRUE]
            ELSE IF sf.StoragePath \in DOMAIN w1.out THEN w1
            ELSE IF hit("mkdir") THEN Fail(w1, "mkdir")
            ELSE store(copyFile([w1 EXCEPT !.dirs = @ \cup Ancestors(storageDir)],
                                path, sf.StoragePath, fault), sf)
        file(relPath, storageDir, storagePath, root) ==
            visit(storageDir,
                  [Path |-> path, RelPath |-> relPath, StoragePath |-> storagePath,
                   StorageRelPath |-> TrimPrefix(storagePath, root)])
        place(hashedPath, relPath, storageDir, root) ==
            file(relPath, storageDir, Join(storageDir, Base(hashedPath)), root)
        hashed(hashedPath, relPath, root) ==
            place(hashedPath, relPath, Join(root, Dir(relPath)), root)
    IN  IF hit("hash") THEN Fail(w1, "hash")
        ELSE hashed(hashFilename(path, inFS[path]), TrimPrefix(path, dir), OutputDir)

\* The walk function of Storage.collectFiles, for the regular file at path
\* under the input directory dir.
collectFile(w, dir, path, fault) ==
    LET hit(k) == fault.kind = k /\ fault.target = path
        w1 == Note(w, "hash", path, "")
        insert(v, sf) == Note([v EXCEPT !.fm = Put(@, sf.RelPath, sf)],
                              "insert", sf.RelPath, sf.StoragePath)
        store(copied, sf) == IF copied.err # "" THEN copied ELSE insert(copied, sf)
        visit(storageDir, sf) ==
            \* os.Stat fails with something other than not-exist: the copy is skipped
            IF hit("stat") THEN insert([w1 EXCEPT !.fired = TRUE], sf)
            ELSE IF sf.StoragePath \in DOMAIN w1.out THEN insert(w1, sf)
            ELSE IF hit("mkdir") THEN Fail(w1, "mkdir")
            ELSE store(copyFile([w1 EXCEPT !.dirs = @ \cup Ancestors(storageDir)],
                                path, sf.StoragePath, fault), sf)
        file(relPath, storageDir, storagePath, root) ==
            visit(storageDir,
                  [Path |-> path, RelPath |-> relPath, StoragePath |-> storagePath,
                   StorageRelPath |-> TrimPrefix(storagePath, root)])
        place(hashedPath, relPath, storageDir, root) ==
            file(relPath, storageDir, Join(storageDir, Base(hashedPath)), root)
        hashed(hashedPath, relPath, root) ==
            place(hashedPath, relPath, Join(root, Dir(relPath)), root)
    IN  IF hit("hash") THEN Fail(w1, "hash")
        ELSE hashed(hashFilename(path, inFS[path]), TrimPrefix(path, dir), OutputDir)

\* filepath.Walk(dir, ...): the regular files under dir, in walk order.
WalkFiles(dir) == SelectSeq(InPathSeq, LAMBDA p : p \in DOMAIN inFS /\ HasPrefix(p, dir))

RECURSIVE WalkDir(_, _, _, _)
WalkDir(w, dir, files, fault) ==
    IF w.err # "" \/ Len(files) = 0 THEN w
    ELSE WalkDir(collectFile(w, dir, Head(files), fault), dir, Tail(files), fault)

\* Storage.collectFiles: every input directory in turn, the first error returned.
RECURSIVE collectFiles(_, _, _)
collectFiles(w, dirs, fault) ==
    IF w.err # "" \/ Len(dirs) = 0 THEN w
    ELSE collectFiles(WalkDir(w, Head(dirs), WalkFiles(Head(dirs)), fault),
                      Tail(dirs), fault)

\* A replacement function that leaves every match as it is.
KeepMatch(regex, s, file, fm) == [text |-> s, changed |-> FALSE]

\* The function PostProcessCSS hands to ReplaceAllStringFunc, for one match s
\* found in the stylesheet file.
ReplaceMatch(regex, s, file, fm) ==
    LET swap(urlFileName, hashedName) ==
            [text |-> ReplaceFirst(s, urlFileName, hashedName), changed |-> TRUE]
        lookup(url, found) ==
            IF ignoreRegex(url) \/ found = {} THEN [text |-> s, changed |-> FALSE]
            ELSE swap(Base(url), Base(fm[CHOOSE k \in found : TRUE].StoragePath))
        search(url, urlFilePath) ==
            lookup(url, {k \in DOMAIN fm : fm[k].Path = urlFilePath})
        group(url) == search(url, Join(Dir(file.Path), url))
    IN  group(findSubmatchGroup(regex, s))

\* regex.ReplaceAllStringFunc over the text t, from position from on.
RECURSIVE ReplaceAllStringFunc(_, _, _, _, _)
ReplaceAllStringFunc(regex, t, from, file, fm) ==
    LET glue(m, r, rest) == [text |-> SubSeq(t, from, m.s - 1) \o r.text \o rest.text,
                             changed |-> r.changed \/ rest.changed]
        at(m) == IF m.s = 0 THEN [text |-> SubSeq(t, from, Len(t)), changed |-> FALSE]
                 ELSE glue(m, ReplaceMatch(regex, SubSeq(t, m.s, m.e), file, fm),
                           ReplaceAllStringFunc(regex, t, m.e + 1, file, fm))
    IN  at(FindMatch(regex, t, from))

\* The loop over urlPatterns: each pattern rewrites what the one before left.
RECURSIVE RewriteFrom(_, _, _, _)
RewriteFrom(i, acc, file, fm) ==
    LET next(r) == RewriteFrom(i + 1, [text |-> r.text,
                                       changed |-> acc.changed \/ r.changed], file, fm)
    IN  IF i > Len(urlPatterns) THEN acc
        ELSE next(ReplaceAllStringFunc(urlPatterns[i], acc.text, 1, file, fm))

Rewrite(content, file, fm) == RewriteFrom(1, [text |-> content, changed |-> FALSE], file, fm)

\* PostProcessCSS(storage, file)
PostProcessCSS(w, file, fault) ==
    LET hit(k) == fault.kind = k /\ fault.target = file.RelPath
        write(r) ==
            IF ~r.changed THEN w
            ELSE IF Dir(file.StoragePath) \notin w.dirs THEN [w EXCEPT !.err = "ENOENT"]
            \* ioutil.WriteFile truncates the file before it writes
            ELSE IF hit("write")
            THEN Fail([w EXCEPT !.out = Put(@, file.StoragePath, "")], "write")
            ELSE [w EXCEPT !.out = Put(@, file.StoragePath, r.text)]
    IN  IF Ext(file.Path) # ".css" THEN w
        ELSE IF file.Path \notin DOMAIN inFS THEN [w EXCEPT !.err = "ENOENT"]
        ELSE IF hit("read") THEN Fail(w, "read")
        ELSE write(Rewrite(inFS[file.Path], file, w.fm))

\* A rule added by RegisterRule: it touches nothing and may return an error.
CustomRule(w, file, fault) ==
    IF fault.kind = "rule" /\ fault.target = file.RelPath THEN Fail(w, "rule") ELSE w

ApplyRule(rule, w, file, fault) ==
    IF rule = "PostProcessCSS" THEN PostProcessCSS(w, file, fault)
    ELSE CustomRule(w, file, fault)

\* An inner loop that goes on to the next rule after a rule returned an error.
RECURSIVE ApplyRulesAll(_, _, _, _)
ApplyRulesAll(w, file, i, fault) ==
    IF i > Len(postProcessRules) THEN w
    ELSE ApplyRulesAll(ApplyRule(postProcessRules[i],
                                 Note(w, "rule", postProcessRules[i], file.RelPath),
                                 file, fault),
                       file, i + 1, fault)

\* The inner loop of Storage.postProcessFiles: the rules from index i on.
RECURSIVE ApplyRules(_, _, _, _)
ApplyRules(w, file, i, fault) ==
    IF w.err # "" \/ i > Len(postProcessRules) THEN w
    ELSE ApplyRules(ApplyRule(postProcessRules[i],
                              Note(w, "rule", postProcessRules[i], file.RelPath),
                              file, fault),
                    file, i + 1, fault)

\* Storage.postProcessFiles: the entries of the map in the order the range
\* statement happens to yield them.
RECURSIVE postProcessFiles(_, _, _)
postProcessFiles(w, order, fault) ==
    IF w.err # "" \/ Len(order) = 0 THEN w
    ELSE postProcessFiles(ApplyRules(w, w.fm[Head(order)], 1, fault), Tail(order), fault)

\* The document json.Marshal makes of the map: Paths[sf.RelPath] = sf.StorageRelPath,
\* every string written as a JSON string.
ManifestOf(fm) ==
    [state |-> "ok",
     paths |-> [e \in {EncodeString(fm[k].RelPath) : k \in DOMAIN fm} |->
                   EncodeString(fm[CHOOSE k \in DOMAIN fm :
                                       EncodeString(fm[k].RelPath) = e].StorageRelPath)],
     version |-> ManifestVersion]

\* saveManifest(dir, filesMap)
saveManifest(w, fault) ==
    LET w1 == Note(w, "save", "", "")
    IN  IF fault.kind = "saveopen" THEN Fail(w1, "saveopen")
        ELSE IF fault.kind = "savewrite" THEN Fail([w1 EXCEPT !.man = CorruptDoc], "savewrite")
        ELSE [w1 EXCEPT !.man = ManifestOf(w.fm)]

\* The orders in which a range statement may yield the keys of a map.
Orders(S) == {o \in [1..Cardinality(S) -> S] : \A i, j \in 1..Cardinality(S) : o[i] = o[j] => i = j}

\* Storage.CollectStatic up to the end of collectFiles.
Collected(w, fault) ==
    IF fault.kind = "mkroot" THEN Fail(w, "mkroot")
    ELSE collectFiles([w EXCEPT !.dirs = @ \cup Ancestors(Clean(OutputDir))], inputDirs, fault)

\* Storage.CollectStatic from postProcessFiles on.
Finished(w, order, fault) ==
    LET w2 == postProcessFiles(w, order, fault)
    IN  IF w.err # "" THEN w
        ELSE IF w2.err # "" THEN w2
        ELSE saveManifest(w2, fault)


----------------------------------------------------------------------------
\* The manifest store.

\* A loader that accepts a document of any schema version.
loadManifestAnyVersion(doc) ==
    IF doc.state = "absent" THEN [filesMap |-> EmptyMap, err |-> "ENOENT"]
    ELSE IF doc.state = "corrupt" THEN [filesMap |-> EmptyMap, err |-> "json"]
    ELSE [filesMap |-> [r \in {DecodeString(e) : e \in DOMAIN doc.paths} |->
                           [Path |-> "", RelPath |-> r, StoragePath |-> "",
                            StorageRelPath |->
                                DecodeString(doc.paths[CHOOSE e \in DOMAIN doc.paths :
                                                          DecodeString(e) = r])]],
          err |-> ""]

\* loadManifest(dir): the map read from the document, and the error.
loadManifest(doc) ==
    IF doc.state = "absent" THEN [filesMap |-> EmptyMap, err |-> "ENOENT"]
    ELSE IF doc.state = "corrupt" THEN [filesMap |-> EmptyMap, err |-> "json"]
    ELSE IF doc.version # ManifestVersion
    THEN [filesMap |-> EmptyMap, err |-> "ErrManifestVersionMismatch"]
    ELSE [filesMap |-> [r \in {DecodeString(e) : e \in DOMAIN doc.paths} |->
                           [Path |-> "", RelPath |-> r, StoragePath |-> "",
                            StorageRelPath |->
                                DecodeString(doc.paths[CHOOSE e \in DOMAIN doc.paths :
                                                          DecodeString(e) = r])]],
          err |-> ""]

\* A Resolve that does not look at Storage.Enabled.
ResolveTracked(enabled, fm, relPath) ==
    IF relPath \in DOMAIN fm THEN fm[relPath].StorageRelPath ELSE ""

\* Storage.Resolve(relPath)
Resolve(enabled, fm, relPath) ==
    IF ~enabled THEN relPath
    ELSE IF relPath \in DOMAIN fm THEN fm[relPath].StorageRelPath
    ELSE ""

----------------------------------------------------------------------------
\* The http.FileSystem adapter.

NilFile == [kind |-> "nil", path |-> ""]

\* The directories of the input trees; they stay when a file is removed.
InDirs == UNION {Ancestors(Dir(p)) : p \in InPaths}

\* http.Dir(root).Open(name): the file or directory at root + Clean("/" + name).
\* deny is the root the environment refuses to open, "" when it refuses none.
DirOpen(root, name, deny) ==
    LET at(full) ==
            IF root = deny THEN [file |-> NilFile, err |-> "EACCES"]
            ELSE IF \/ full \in DOMAIN inFS \cup DOMAIN outFS
                    \/ manifest.state # "absent" /\ full = Join(OutputDir, ManifestFilename)
            THEN [file |-> [kind |-> "file", path |-> full], err |-> ""]
            ELSE IF full \in InDirs \cup outDirs
            THEN [file |-> [kind |-> "dir", path |-> full], err |-> ""]
            ELSE [file |-> NilFile, err |-> "ENOENT"]
    IN  at(Join(root, Clean("/" \o name)))

\* A loop that goes on to the next root after any error.
RECURSIVE OpenInputsAll(_, _, _, _)
OpenInputsAll(dirs, name, deny, r) ==
    LET next(o, tried) ==
            IF o.err = "" THEN [file |-> o.file, err |-> o.err, tried |-> tried]
            ELSE OpenInputsAll(Tail(dirs), name, deny,
                               [file |-> o.file, err |-> o.err, tried |-> tried])
    IN  IF Len(dirs) = 0 THEN r
        ELSE next(DirOpen(Head(dirs), name, deny), Append(r.tried, Head(dirs)))

\* The loop of Storage.Open over s.inputDirs: f, err and the roots tried so far.
RECURSIVE OpenInputs(_, _, _, _)
OpenInputs(dirs, name, deny, r) ==
    LET next(o, tried) ==
            IF o.err = "" \/ o.err # "ENOENT"
            THEN [file |-> o.file, err |-> o.err, tried |-> tried]
            ELSE OpenInputs(Tail(dirs), name, deny,
                            [file |-> o.file, err |-> o.err, tried |-> tried])
    IN  IF Len(dirs) = 0 THEN r
        ELSE next(DirOpen(Head(dirs), name, deny), Append(r.tried, Head(dirs)))

\* An Open that returns directories whatever Storage.OutputDirList says.
OpenListing(path, deny) ==
    LET listing(o) == IF o.err # "" THEN [o EXCEPT !.file = NilFile] ELSE o
        output(o) == [file |-> o.file, err |-> o.err, tried |-> <<OutputDir>>]
    IN  listing(IF ~Enabled
                THEN OpenInputs(inputDirs, path, deny,
                                [file |-> NilFile, err |-> "", tried |-> <<>>])
                ELSE output(DirOpen(OutputDir, path, deny)))

\* Storage.Open(path)
Open(path, deny) ==
    LET listing(o) ==
            IF o.err # "" THEN [o EXCEPT !.file = NilFile]
            ELSE IF OutputDirList THEN o
            \* f.Stat() on the nil http.File that an empty inputDirs leaves
            ELSE IF o.file.kind = "nil" THEN [o EXCEPT !.err = "panic"]
            ELSE IF o.file.kind = "dir" THEN [o EXCEPT !.file = NilFile, !.err = "ENOENT"]
            ELSE o
        output(o) == [file |-> o.file, err |-> o.err, tried |-> <<OutputDir>>]
    IN  listing(IF ~Enabled
                THEN OpenInputs(inputDirs, path, deny,
                                [file |-> NilFile, err |-> "", tried |-> <<>>])
                ELSE output(DirOpen(OutputDir, path, deny)))

----------------------------------------------------------------------------
\* What a call returns: the error ("" for nil), the string and the file of
\* the calls that return one, the roots an Open looked in and the root the
\* environment refused it.

Ret(op, arg, err) ==
    [op |-> op, arg |-> arg, err |-> err, str |-> "", file |-> NilFile, tried |-> <<>>,
     deny |-> ""]

\* No call has returned since CollectStatic was entered.
Pending == Ret("", "", "")

Spend(what) == [budget EXCEPT ![what] = @ + 1]

\* A snapshot of what a run reads and writes besides the input trees.
Snapshot(out, man, fm) == [out |-> out, man |-> man, fm |-> fm]

Idle == [pc |-> "idle", walk |-> <<>>, todo |-> {}, fired |-> FALSE,
         pre |-> Snapshot(EmptyMap, NoDoc, EmptyMap)]

\* Documents the pipeline did not write: an older schema, a newer one, and
\* one of the current schema (TestManifestVersionMismatch, TestLoadManifest).
ForeignDocs ==
    {[state |-> "ok", paths |-> ("old.css" :> "old.0f0f.css"), version |-> v] : v \in {0, 1}}

\* The files the environment edits between runs.
EditPaths == {"in1/css/style.css", "in1/img/pix.png", "in2/img/pix.png"}

\* The input trees the exploration starts from.
InitialTrees ==
    {("in1/css/style.css" :> CssBoth) @@ ("in1/img/pix.png" :> "abc")}

----------------------------------------------------------------------------
\* The state after NewStorage("out") over an output root that does not exist.

Init ==
    /\ inFS \in InitialTrees
    /\ outFS = EmptyMap
    /\ outDirs = {}
    /\ manifest = NoDoc
    /\ FilesMap = EmptyMap
    /\ inputDirs = <<>>
    /\ postProcessRules = <<"PostProcessCSS">>
    /\ Enabled = TRUE
    /\ OutputDirList = TRUE
    /\ run = Idle
    /\ log = <<>>
    /\ ret = Ret("NewStorage", OutputDirArg, "")
    /\ hist = <<>>
    /\ budget = [runs |-> 0, events |-> 0, faults |-> 0]

\* Storage.AddInputDir(path)
AddInputDir(path) ==
    /\ run.pc = "idle"
    /\ Len(inputDirs) < MaxDirs
    /\ inputDirs' = Append(inputDirs, normalizeDirPath(path))
    /\ ret' = Ret("AddInputDir", path, "")
    /\ UNCHANGED <<inFS, outFS, outDirs, manifest, FilesMap, postProcessRules,
                   Enabled, OutputDirList, run, log, hist, budget>>

\* Storage.RegisterRule(rule), for a rule of the caller's
RegisterRule(rule) ==
    /\ run.pc = "idle"
    /\ Len(postProcessRules) < MaxRules
    /\ postProcessRules' = Append(postProcessRules, rule)
    /\ ret' = Ret("RegisterRule", rule, "")
    /\ UNCHANGED <<inFS, outFS, outDirs, manifest, FilesMap, inputDirs,
                   Enabled, OutputDirList, run, log, hist, budget>>

\* The environment rewrites, creates or removes one input file between runs.
EditInput(path, bytes, remove) ==
    /\ run.pc = "idle"
    /\ budget.events < MaxEvents
    /\ IF path \in DOMAIN inFS THEN (IF remove THEN TRUE ELSE inFS[path] # bytes)
       ELSE ~remove
    /\ inFS' = IF remove THEN Without(inFS, path) ELSE Put(inFS, path, bytes)
    /\ budget' = Spend("events")
    /\ UNCHANGED <<outFS, outDirs, manifest, FilesMap, inputDirs, postProcessRules,
                   Enabled, OutputDirList, run, log, ret, hist>>

\* The world a step of the run works on, and the step's effect on the state.
World == [out |-> outFS, dirs |-> outDirs, man |-> manifest, fm |-> FilesMap,
          log |-> log, err |-> "", fired |-> FALSE]

\* The files collectFiles will visit: every input directory in turn.
RECURSIVE WalkAll(_)
WalkAll(dirs) ==
    IF Len(dirs) = 0 THEN <<>>
    ELSE [i \in 1..Len(WalkFiles(Head(dirs))) |-> <<Head(dirs), WalkFiles(Head(dirs))[i]>>]
         \o WalkAll(Tail(dirs))

\* A CollectStatic that starts the rules as soon as the File Map has an entry.
AdvanceRulesFirst(w, walk, todo, saved, pre, spent) ==
    LET fired == run.fired \/ w.fired
        done == w.err # "" \/ saved
        pc == IF todo # {} THEN "post"
              ELSE IF Len(walk) > 0 THEN "collect"
              ELSE "save"
        r == [in |-> inFS, dirs |-> inputDirs, rules |-> postProcessRules,
              err |-> w.err, fired |-> fired, log |-> w.log,
              faults |-> IF w.fired THEN spent.faults + 1 ELSE spent.faults,
              pre |-> pre, post |-> Snapshot(w.out, w.man, w.fm)]
    IN  /\ outFS' = w.out
        /\ outDirs' = w.dirs
        /\ manifest' = w.man
        /\ FilesMap' = w.fm
        /\ log' = w.log
        /\ budget' = IF w.fired THEN [spent EXCEPT !.events = @ + 1, !.faults = @ + 1]
                      ELSE spent
        /\ run' = IF done THEN Idle
                  ELSE [pc |-> pc, walk |-> walk,
                        todo |-> IF pc = "post" THEN todo ELSE {},
                        fired |-> fired, pre |-> pre]
        /\ ret' = IF done THEN Ret("CollectStatic", "", w.err) ELSE Pending
        /\ hist' = IF ~done THEN hist
                   ELSE IF Len(hist) = 0 THEN <<r>> ELSE <<r, hist[1]>>
        /\ UNCHANGED <<inFS, inputDirs, postProcessRules, Enabled, OutputDirList>>

\* After a step that left the world w: the call returns (an error, or the
\* manifest is saved), or goes on with the files (walk) and then the map
\* entries (todo) still to do.
Advance(w, walk, todo, saved, pre, spent) ==
    LET fired == run.fired \/ w.fired
        done == w.err # "" \/ saved
        pc == IF Len(walk) > 0 THEN "collect"
              ELSE IF todo # {} THEN "post"
              ELSE "save"
        r == [in |-> inFS, dirs |-> inputDirs, rules |-> postProcessRules,
              err |-> w.err, fired |-> fired, log |-> w.log,
              faults |-> IF w.fired THEN spent.faults + 1 ELSE spent.faults,
              pre |-> pre, post |-> Snapshot(w.out, w.man, w.fm)]
    IN  /\ outFS' = w.out
        /\ outDirs' = w.dirs
        /\ manifest' = w.man
        /\ FilesMap' = w.fm
        /\ log' = w.log
        /\ budget' = IF w.fired THEN [spent EXCEPT !.events = @ + 1, !.faults = @ + 1]
                      ELSE spent
        /\ run' = IF done THEN Idle
                  ELSE [pc |-> pc, walk |-> walk,
                        todo |-> IF pc = "post" THEN todo ELSE {},
                        fired |-> fired, pre |-> pre]
        /\ ret' = IF done THEN Ret("CollectStatic", "", w.err) ELSE Pending
        /\ hist' = IF ~done THEN hist
                   ELSE IF Len(hist) = 0 THEN <<r>> ELSE <<r, hist[1]>>
        /\ UNCHANGED <<inFS, inputDirs, postProcessRules, Enabled, OutputDirList>>

\* A fault may happen only while the environment has faults left, and is
\* counted only where the step reaches the failing call.
MayFail(fault, w) ==
    /\ fault.kind # "none" => budget.events < MaxEvents
    /\ fault.kind # "none" <=> w.fired

\* Storage.CollectStatic(): os.MkdirAll(s.OutputDir), then collectFiles begins.
CollectStaticBegin(kinds) ==
    /\ run.pc = "idle"
    /\ budget.runs < MaxRuns
    /\ \E fault \in FaultsAt(kinds, "") :
           \E w \in {IF fault.kind = "mkroot"
                      THEN Fail([World EXCEPT !.log = <<>>], "mkroot")
                      ELSE [World EXCEPT !.log = <<>>,
                                         !.dirs = @ \cup Ancestors(Clean(OutputDir))]} :
               /\ MayFail(fault, w)
               /\ Advance(w, WalkAll(inputDirs), DOMAIN w.fm, FALSE,
                          Snapshot(outFS, manifest, FilesMap), Spend("runs"))

\* collectFiles: the walk function on the next regular file.
CollectStep(kinds) ==
    /\ run.pc = "collect"
    /\ \E fault \in FaultsAt(kinds, Head(run.walk)[2]) :
           \E w \in {collectFile(World, Head(run.walk)[1], Head(run.walk)[2], fault)} :
               /\ MayFail(fault, w)
               /\ Advance(w, Tail(run.walk), DOMAIN w.fm, FALSE, run.pre, budget)

\* postProcessFiles: every rule on the entry the range statement yields next.
PostStep(kinds) ==
    /\ run.pc = "post"
    /\ \E key \in run.todo : \E fault \in FaultsAt(kinds, key) :
           \E w \in {ApplyRules(World, FilesMap[key], 1, fault)} :
               /\ MayFail(fault, w)
               /\ Advance(w, <<>>, run.todo \ {key}, FALSE, run.pre, budget)

\* saveManifest, and CollectStatic returns.
SaveStep(kinds) ==
    /\ run.pc = "save"
    /\ \E fault \in FaultsAt(kinds, "") :
           \E w \in {saveManifest(World, fault)} :
               /\ MayFail(fault, w)
               /\ Advance(w, <<>>, {}, TRUE, run.pre, budget)

\* NewStorage(outputDir): a new Storage over the same output root.
NewStorage ==
    /\ run.pc = "idle"
    /\ budget.events < MaxEvents
    /\ LET l == loadManifest(manifest)
       IN  IF l.err # "" /\ l.err # "ENOENT"
           THEN /\ ret' = Ret("NewStorage", OutputDirArg, l.err)
                /\ UNCHANGED <<FilesMap, inputDirs, postProcessRules, Enabled, OutputDirList>>
           ELSE /\ ret' = Ret("NewStorage", OutputDirArg, "")
                /\ FilesMap' = l.filesMap
                /\ inputDirs' = <<>>
                /\ postProcessRules' = <<"PostProcessCSS">>
                /\ Enabled' = TRUE
                /\ OutputDirList' = TRUE
    /\ budget' = Spend("events")
    /\ UNCHANGED <<inFS, outFS, outDirs, manifest, run, log, hist>>

\* Storage.LoadManifest()
LoadManifest ==
    /\ run.pc = "idle"
    /\ budget.events < MaxEvents
    /\ LET l == loadManifest(manifest)
       IN  /\ ret' = Ret("LoadManifest", "", l.err)
           /\ FilesMap' = IF l.err = "" THEN l.filesMap ELSE FilesMap
    /\ budget' = Spend("events")
    /\ UNCHANGED <<inFS, outFS, outDirs, manifest, inputDirs, postProcessRules,
                   Enabled, OutputDirList, run, log, hist>>

\* The caller sets Storage.Enabled.
SetEnabled(b) ==
    /\ run.pc = "idle"
    /\ Enabled # b
    /\ Enabled' = b
    /\ ret' = Ret("Enabled", ToString(b), "")
    /\ UNCHANGED <<inFS, outFS, outDirs, manifest, FilesMap, inputDirs, postProcessRules,
                   OutputDirList, run, log, hist, budget>>

\* The caller sets Storage.OutputDirList.
SetOutputDirList(b) ==
    /\ run.pc = "idle"
    /\ OutputDirList # b
    /\ OutputDirList' = b
    /\ ret' = Ret("OutputDirList", ToString(b), "")
    /\ UNCHANGED <<inFS, outFS, outDirs, manifest, FilesMap, inputDirs, postProcessRules,
                   Enabled, run, log, hist, budget>>

\* The paths a caller asks for: tracked and untracked ones, a directory, and
\* the names the File Map resolves to.
RequestPaths ==
    {"css/style.css", "img", "nope"} \cup DOMAIN FilesMap
        \cup {FilesMap[k].StorageRelPath : k \in DOMAIN FilesMap}

\* The root the environment may refuse to open.
DenyRoots == {"", normalizeDirPath("in1")}

\* A call of Storage.Open(path)
CallOpen(path, deny) ==
    /\ run.pc = "idle"
    /\ \E o \in {Open(path, deny)} :
           ret' = [op |-> "Open", arg |-> path, err |-> o.err, str |-> "",
                   file |-> o.file, tried |-> o.tried, deny |-> deny]
    /\ UNCHANGED <<inFS, outFS, outDirs, manifest, FilesMap, inputDirs, postProcessRules,
                   Enabled, OutputDirList, run, log, hist, budget>>

\* A call of Storage.Resolve(relPath)
CallResolve(relPath) ==
    /\ run.pc = "idle"
    /\ ret' = [Ret("Resolve", relPath, "") EXCEPT
                   !.str = Resolve(Enabled, FilesMap, relPath)]
    /\ UNCHANGED <<inFS, outFS, outDirs, manifest, FilesMap, inputDirs, postProcessRules,
                   Enabled, OutputDirList, run, log, hist, budget>>

Next ==
    \/ \E path \in InputDirArgs : AddInputDir(path)
    \/ RegisterRule("Custom")
    \/ \E path \in EditPaths : \E bytes \in BytesOf(path) : \E remove \in BOOLEAN :
           EditInput(path, bytes, remove)
    \/ CollectStaticBegin(BeginFaultKinds)
    \/ CollectStep(CollectFaultKinds)
    \/ PostStep(RuleFaultKinds)
    \/ SaveStep(SaveFaultKinds)

Spec == Init /\ [][Next]_vars

----------------------------------------------------------------------------
\* The storage as a web application uses it: collect once or load the
\* manifest, then resolve and open, in either mode.

\* Both input roots hold files; one file name is Latin-1, not UTF-8.
ServeTrees ==
    {("in1/css/style.css" :> CssPlain) @@ ("in2/img/caf^.png" :> "abc")}

\* The state after NewStorage("out") of staticfiles.go, which loads nothing,
\* over an output root that is missing or holds a manifest of another origin.
ServeInit ==
    /\ inFS \in ServeTrees
    /\ outFS = EmptyMap
    /\ manifest \in {NoDoc} \cup ForeignDocs
    /\ outDirs = IF manifest = NoDoc THEN {} ELSE Ancestors(Clean(OutputDir))
    /\ FilesMap = EmptyMap
    /\ inputDirs = <<>>
    /\ postProcessRules = <<"PostProcessCSS">>
    /\ Enabled = TRUE
    /\ OutputDirList = TRUE
    /\ run = Idle
    /\ log = <<>>
    /\ ret = Ret("NewStorage", OutputDirArg, "")
    /\ hist = <<>>
    /\ budget = [runs |-> 0, events |-> 0, faults |-> 0]

ServeNext ==
    \/ \E path \in InputDirArgs : AddInputDir(path)
    \/ \E b \in BOOLEAN : SetEnabled(b)
    \/ \E b \in BOOLEAN : SetOutputDirList(b)
    \/ budget.runs < MaxServeRuns /\ CollectStaticBegin({})
    \/ CollectStep({})
    \/ PostStep({})
    \/ SaveStep({})
    \/ NewStorage
    \/ LoadManifest
    \/ \E path \in RequestPaths : \E deny \in DenyRoots : CallOpen(path, deny)
    \/ \E relPath \in RequestPaths : CallResolve(relPath)

ServeSpec == ServeInit /\ [][ServeNext]_vars

----------------------------------------------------------------------------
\* One run over a stylesheet with a single reference, for each form of
\* reference PostProcessCSS looks for and each kind of file it can point to.

Stylesheet == "in1/css/style.css"

RewriteTrees ==
    {(Stylesheet :> "a{b:url(../img/pix.png)}") @@ ("in1/img/pix.png" :> "abc"),
     (Stylesheet :> "a{b:url('../img/img')}") @@ ("in1/img/img" :> "abc"),
     (Stylesheet :> "a{b:url(url)}") @@ ("in1/css/url" :> "abc"),
     (Stylesheet :> "@import \"x.css\";") @@ ("in1/css/x.css" :> CssPlain),
     (Stylesheet :> "/*# sourceMappingURL=style.css.map */")
         @@ ("in1/css/style.css.map" :> "abc"),
     (Stylesheet :> "a{b:url(data:abc)}") @@ ("in1/img/pix.png" :> "abc"),
     (Stylesheet :> "a{b:url(x:pix.png)}") @@ ("in1/css/x:pix.png" :> "abc"),
     (Stylesheet :> "a{b:url(/img/pix.png)}") @@ ("in1/css/img/pix.png" :> "abc"),
     (Stylesheet :> "a{b:url(/img/pix.png)}") @@ ("in1/img/pix.png" :> "abc"),
     (Stylesheet :> "a{b:url(nope.png)}") @@ ("in1/img/pix.png" :> "abc"),
     (Stylesheet :> "a{b:url(\"../img/pix.png\")}") @@ ("in1/img/pix.png" :> "abc"),
     (Stylesheet :> "@import  'x.css';") @@ ("in1/css/x.css" :> CssPlain)}

\* The state after NewStorage("out") and AddInputDir("in1").
RewriteInit ==
    /\ inFS \in RewriteTrees
    /\ outFS = EmptyMap
    /\ outDirs = {}
    /\ manifest = NoDoc
    /\ FilesMap = EmptyMap
    /\ inputDirs = <<normalizeDirPath("in1")>>
    /\ postProcessRules = <<"PostProcessCSS">>
    /\ Enabled = TRUE
    /\ OutputDirList = TRUE
    /\ run = Idle
    /\ log = <<>>
    /\ ret = Ret("AddInputDir", "in1", "")
    /\ hist = <<>>
    /\ budget = [runs |-> 0, events |-> 0, faults |-> 0]

RewriteNext ==
    \/ budget.runs < MaxServeRuns /\ CollectStaticBegin({})
    \/ CollectStep({})
    \/ PostStep({})
    \/ SaveStep({})

RewriteSpec == RewriteInit /\ [][RewriteNext]_vars

----------------------------------------------------------------------------
\* Properties of the pipeline (Spec). hist[1] is the latest finished run and
\* hist[2] the one before it.

\* Every match of a urlPattern in the stylesheet text t.
RECURSIVE MatchesFrom(_, _, _)
MatchesFrom(regex, t, from) ==
    LET step(m) == IF m.s = 0 THEN {} ELSE {m} \cup MatchesFrom(regex, t, m.e + 1)
    IN  step(FindMatch(regex, t, from))

References(t) == UNION {MatchesFrom(urlPatterns[i], t, 1) : i \in 1..Len(urlPatterns)}

\* The input file a relative reference url in the stylesheet at path points to.
Target(path, url) == Join(Dir(path), url)

Tracked(fm) == {fm[k].Path : k \in DOMAIN fm}

LogEvents(h, ev) == {i \in 1..Len(h.log) : h.log[i].ev = ev}

\* Keys c (a stylesheet) and i (an image it refers to) tracked by two
\* successive successful runs, the image's bytes differing between the runs.
ImageChanged(old, new, c, i) ==
    /\ old.err = "" /\ new.err = ""
    /\ c \in DOMAIN old.post.fm /\ i \in DOMAIN old.post.fm
    /\ old.post.fm[c].Path = new.post.fm[c].Path
    /\ old.post.fm[i].Path = new.post.fm[i].Path
    /\ Ext(new.post.fm[c].Path) = ".css"
    /\ new.post.fm[c].Path \in DOMAIN old.in \cap DOMAIN new.in
    /\ new.post.fm[i].Path \in DOMAIN old.in \cap DOMAIN new.in
    /\ old.in[new.post.fm[c].Path] = new.in[new.post.fm[c].Path]
    /\ old.in[new.post.fm[i].Path] # new.in[new.post.fm[i].Path]
    /\ \E m \in References(new.in[new.post.fm[c].Path]) :
           /\ ~ignoreRegex(m.url)
           /\ Target(new.post.fm[c].Path, m.url) = new.post.fm[i].Path

\* C1: when the bytes of an image a tracked stylesheet refers to change between
\* two successful runs on one output root, Resolve(image) changes its digest
\* and the stylesheet's output holds the new hashed file name, not the old one.
C1_ChangePropagation ==
    Len(hist) = 2 =>
        \A c \in DOMAIN hist[1].post.fm : \A i \in DOMAIN hist[1].post.fm :
            ImageChanged(hist[2], hist[1], c, i) =>
                /\ Resolve(TRUE, hist[1].post.fm, i) # Resolve(TRUE, hist[2].post.fm, i)
                /\ Resolve(TRUE, hist[1].post.fm, c) = Resolve(TRUE, hist[2].post.fm, c)
                /\ hist[1].post.fm[c].StoragePath \in DOMAIN hist[1].post.out
                /\ Contains(hist[1].post.out[hist[1].post.fm[c].StoragePath],
                            Base(hist[1].post.fm[i].StoragePath))
                /\ ~Contains(hist[1].post.out[hist[1].post.fm[c].StoragePath],
                             Base(hist[2].post.fm[i].StoragePath))

C1_Witness ==
    /\ Len(hist) = 2
    /\ ImageChanged(hist[2], hist[1], "css/style.css", "img/pix.png")
    /\ Contains(hist[2].post.out[hist[2].post.fm["css/style.css"].StoragePath],
                Base(hist[2].post.fm["img/pix.png"].StoragePath))

FreshRun ==
    LET world == [out |-> EmptyMap, dirs |-> {}, man |-> NoDoc, fm |-> EmptyMap,
                  log |-> <<>>, err |-> "", fired |-> FALSE]
        rules(w) == Finished(w, CHOOSE o \in Orders(DOMAIN w.fm) : TRUE, NoFault)
    IN  rules(Collected(world, NoFault))

\* A failed first run on a new output root, then a run that succeeds with no
\* fault, the inputs and the configuration unchanged.
Retried ==
    /\ Len(hist) = 2
    /\ hist[2].err # "" /\ hist[1].err = "" /\ ~hist[1].fired
    /\ hist[2].pre = Snapshot(EmptyMap, NoDoc, EmptyMap)
    /\ hist[1].in = hist[2].in /\ hist[1].dirs = hist[2].dirs
    /\ hist[1].rules = hist[2].rules
    /\ inFS = hist[1].in /\ inputDirs = hist[1].dirs /\ postProcessRules = hist[1].rules

\* C3: after a run that failed at any step, re-invoking CollectStatic with the
\* inputs unchanged yields the output file contents and the manifest of a run
\* over a fresh output root that never failed.
C3_RetrySafety ==
    Retried => /\ hist[1].post.out = FreshRun.out
               /\ hist[1].post.man = FreshRun.man

\* A stylesheet under key k, collected by the run h, with a match m that is a
\* relative reference to no tracked file; no call has failed up to the run's end.
BrokenReference(h, k, m) ==
    /\ h.faults = 0
    /\ Ext(h.post.fm[k].Path) = ".css"
    /\ h.post.fm[k].Path \in DOMAIN h.in
    /\ \E d \in 1..Len(h.dirs) : HasPrefix(h.post.fm[k].Path, h.dirs[d])
    /\ m \in References(h.in[h.post.fm[k].Path])
    /\ ~ignoreRegex(m.url)
    /\ Target(h.post.fm[k].Path, m.url) \notin Tracked(h.post.fm)

\* C4: a stylesheet with a relative reference that resolves to no tracked file
\* is collected without error, and its output copy keeps the reference as it
\* is written in the original; with no resolvable reference at all the output
\* equals the input.
C4_BrokenReferenceTolerance ==
    \A n \in 1..Len(hist) : \A k \in DOMAIN hist[n].post.fm :
        LET h == hist[n]
            path == h.post.fm[k].Path
            dest == h.post.fm[k].StoragePath
        IN  \A m \in (IF path \in DOMAIN h.in THEN References(h.in[path]) ELSE {}) :
                BrokenReference(h, k, m) =>
                    /\ h.err = ""
                    /\ dest \in DOMAIN h.post.out
                    /\ Contains(h.post.out[dest], SubSeq(h.in[path], m.s, m.e))
                    /\ (\A r \in References(h.in[path]) :
                            Target(path, r.url) \notin Tracked(h.post.fm))
                       => h.post.out[dest] = h.in[path]

\* The errors saveManifest raises, and nil.
SaveOutcomes == {"", "saveopen", "savewrite"}

\* C10: a run that returns an error of collection or of a rule leaves the
\* manifest document as it was before the run; only a run whose collection
\* and rules all completed reaches the write of the manifest.
C10_ManifestAtomicity ==
    \A n \in 1..Len(hist) :
        /\ hist[n].err \notin SaveOutcomes => hist[n].post.man = hist[n].pre.man
        /\ hist[n].post.man # hist[n].pre.man => LogEvents(hist[n], "save") # {}
        /\ LogEvents(hist[n], "save") # {} => hist[n].err \in SaveOutcomes

C10_Witness ==
    /\ Len(hist) = 2
    /\ hist[1].err \in {"read", "write", "copy", "hash"}
    /\ hist[1].pre.man.state = "ok"
    /\ hist[1].pre.man.paths # EmptyMap
    /\ hist[1].post.fm # hist[1].pre.fm \/ hist[1].post.out # hist[1].pre.out

\* The paths a manifest document makes resolvable, as a File Map.
OnDisk(doc) == loadManifest(doc).filesMap

\* C11: after a run that returns an error, every original relative path
\* resolves to the same output relative path through the File Map as through
\* the manifest document on disk.
C11_ManifestFilesMapConsistency ==
    \A n \in 1..Len(hist) :
        (hist[n].err # "" /\ hist[n].post.man.state = "ok") =>
            \A p \in DOMAIN hist[n].post.fm \cup DOMAIN OnDisk(hist[n].post.man) :
                Resolve(TRUE, hist[n].post.fm, p)
                    = Resolve(TRUE, OnDisk(hist[n].post.man), p)

\* The input files the run h had to collect.
Collectable(h) == {p \in DOMAIN h.in : \E d \in 1..Len(h.dirs) : HasPrefix(p, h.dirs[d])}

\* The rule invocations the run h logged, as <<rule, key>> pairs.
Invoked(h) == {<<h.log[i].a, h.log[i].b>> : i \in LogEvents(h, "rule")}

\* C12: within one run no rule is invoked before every file of every input
\* root has been collected into the File Map, and the manifest is written
\* only after every rule has been applied to every tracked file.
C12_StageOrdering ==
    \A n \in 1..Len(hist) :
        LET h == hist[n]
            collects == LogEvents(h, "hash") \cup LogEvents(h, "copy")
                            \cup LogEvents(h, "insert")
        IN  /\ \A r \in LogEvents(h, "rule") : \A c \in collects : c < r
            /\ LogEvents(h, "rule") # {} =>
                   /\ {h.log[i].a : i \in LogEvents(h, "hash")} = Collectable(h)
                   /\ Cardinality(LogEvents(h, "insert")) = Cardinality(LogEvents(h, "hash"))
            /\ \A v \in LogEvents(h, "save") : \A r \in LogEvents(h, "rule") : r < v
            /\ LogEvents(h, "save") # {} =>
                   \A k \in DOMAIN h.post.fm : \A j \in 1..Len(h.rules) :
                       <<h.rules[j], k>> \in Invoked(h)

C12_Witness ==
    /\ Len(hist) >= 1
    /\ hist[1].err = ""
    /\ Cardinality(Collectable(hist[1])) = 2
    /\ Cardinality(Invoked(hist[1])) = 4
    /\ LogEvents(hist[1], "save") # {}

\* The rules the run h invoked on the entry keyed k, in the order invoked.
RuleSeq(h, k) ==
    LET evs == SelectSeq(h.log, LAMBDA e : e.ev = "rule" /\ e.b = k)
    IN  [i \in 1..Len(evs) |-> evs[i].a]

\* The errors a rule returns, and the rule that returns each.
RuleErrors == {"read", "write", "rule"}

RuleOf(err) == IF err = "rule" THEN "Custom" ELSE "PostProcessCSS"

\* C13: for each tracked file the rules are invoked in registration order,
\* the built-in stylesheet rule first, each once per entry per run; once a
\* rule returns an error no further rule is invoked for any file and
\* CollectStatic returns that error.
C13_RuleOrderAndAbort ==
    \A n \in 1..Len(hist) :
        LET h == hist[n]
        IN  /\ h.rules[1] = "PostProcessCSS"
            /\ \A k \in DOMAIN h.post.fm :
                   RuleSeq(h, k) = SubSeq(h.rules, 1, Len(RuleSeq(h, k)))
            /\ (h.err = "" /\ LogEvents(h, "save") # {}) =>
                   \A k \in DOMAIN h.post.fm : RuleSeq(h, k) = h.rules
            /\ h.err \in RuleErrors =>
                   /\ h.log[Len(h.log)].ev = "rule"
                   /\ h.log[Len(h.log)].a = RuleOf(h.err)
                   /\ LogEvents(h, "save") = {}

C13_Witness ==
    /\ Len(hist) >= 1
    /\ hist[1].err = "read"
    /\ hist[1].rules = <<"PostProcessCSS", "Custom">>
    /\ Cardinality(DOMAIN hist[1].post.fm) = 2
    /\ RuleSeq(hist[1], "css/style.css") = <<"PostProcessCSS">>

\* The input dirs of the run h, by position, that hold a file at the relative path k.
Holders(h, k) == {d \in 1..Len(h.dirs) : h.dirs[d] \o k \in DOMAIN h.in}

Last(S) == CHOOSE i \in S : \A j \in S : i >= j

\* The hashed relative path of k for a file holding bytes.
HashedRel(k, bytes) ==
    TrimSuffix(k, Ext(k)) \o "." \o EncodeToString(Md5Sum(bytes), SumDigits) \o Ext(k)

\* The relative paths some input dir of the run h holds.
Held(h) == {TrimPrefix(p, h.dirs[d]) : p \in Collectable(h), d \in 1..Len(h.dirs)}
               \ Collectable(h)

\* C14: when several input roots hold the same relative path, collection
\* raises no error and the File Map holds one entry for the path, with the
\* original and output paths of the file in the last-added root that has it;
\* Resolve returns the hashed path of that root's content.
C14_LastWriterWins ==
    Len(hist) >= 1 =>
        LET h == hist[1]
        IN  h.faults = 0 =>
                /\ {h.log[i].a : i \in LogEvents(h, "hash")} = Collectable(h)
                /\ \A k \in Held(h) :
                       LET src == h.dirs[Last(Holders(h, k))] \o k
                       IN  /\ k \in DOMAIN h.post.fm
                           /\ h.post.fm[k].Path = src
                           /\ h.post.fm[k].RelPath = k
                           /\ h.post.fm[k].StoragePath = OutputDir \o HashedRel(k, h.in[src])
                           /\ Resolve(TRUE, h.post.fm, k) = HashedRel(k, h.in[src])

C14_Witness ==
    /\ Len(hist) >= 1
    /\ hist[1].err = "" /\ hist[1].faults = 0
    /\ Cardinality(Holders(hist[1], "img/pix.png")) = 2
    /\ hist[1].dirs[1] # hist[1].dirs[2]
    /\ hist[1].in[hist[1].dirs[1] \o "img/pix.png"]
           # hist[1].in[hist[1].dirs[2] \o "img/pix.png"]
    /\ hist[1].post.fm["img/pix.png"].Path = hist[1].dirs[2] \o "img/pix.png"

\* The last position at which sub occurs in s, 0 when there is none.
LastIndex(s, sub) ==
    LET hits == {j \in 1..(Len(s) - Len(sub) + 1) : SubSeq(s, j, j + Len(sub) - 1) = sub}
    IN  IF hits = {} THEN 0 ELSE CHOOSE j \in hits : \A k \in hits : j >= k

\* The match s with the file name that ends its reference replaced by hashed.
\* The reference is followed in the match by closing quotes or parentheses
\* only, so the name that ends it is the last occurrence of the name in s.
ReplaceFilename(s, name, hashed) ==
    SubSeq(s, 1, LastIndex(s, name) - 1) \o hashed
        \o SubSeq(s, LastIndex(s, name) + Len(name), Len(s))

\* The entry of fm whose original file is path.
EntryOf(fm, path) == fm[CHOOSE k \in DOMAIN fm : fm[k].Path = path]

\* The stylesheet text t with the match m rewritten to point at hashed.
Rewritten(t, m, hashed) ==
    SubSeq(t, 1, m.s - 1)
        \o ReplaceFilename(SubSeq(t, m.s, m.e), Base(m.url), hashed)
        \o SubSeq(t, m.e + 1, Len(t))

\* C15: a matched reference that resolves to a tracked file is rewritten by
\* replacing the file name that ends the reference with the tracked file's
\* hashed name and nothing else: the keyword, the quotes and the directory
\* prefix stay, also when the name occurs earlier in the match.
C15_FilenameOnlyReplacement ==
    (Len(hist) >= 1 /\ hist[1].err = "" /\ Stylesheet \in DOMAIN hist[1].in) =>
        LET h == hist[1]
            t == h.in[Stylesheet]
        IN  \A m \in References(t) :
                (/\ Cardinality(References(t)) = 1
                 /\ ~ignoreRegex(m.url)
                 /\ Target(Stylesheet, m.url) \in Tracked(h.post.fm)) =>
                    h.post.out[h.post.fm["css/style.css"].StoragePath]
                        = Rewritten(t, m, Base(EntryOf(h.post.fm,
                                                       Target(Stylesheet, m.url)).StoragePath))

\* A reference that begins with a URI scheme, or with "/".
SchemeOrAbsolute(url) == ignoreRegex(url) \/ HasPrefix(url, "/")

\* C16: a matched reference that begins with a URI scheme or is otherwise
\* absolute is left unchanged in the output, also when joining it to the
\* stylesheet's directory yields the path of a tracked file.
C16_SchemeAndAbsoluteSkipped ==
    (Len(hist) >= 1 /\ hist[1].err = "" /\ Stylesheet \in DOMAIN hist[1].in) =>
        LET h == hist[1]
            t == h.in[Stylesheet]
        IN  \A m \in References(t) :
                (Cardinality(References(t)) = 1 /\ SchemeOrAbsolute(m.url)) =>
                    h.post.out[h.post.fm["css/style.css"].StoragePath] = t

\* The errors the walk function of collectFiles returns.
CollectErrors == {"hash", "stat", "mkdir", "open", "copy", "sync"}

\* C17: when hashing the source, stat-ing the destination, creating directories
\* or copying fails for a file, CollectStatic returns that error, the file is
\* not inserted into the File Map and no later file is processed; a failed
\* stat of the destination is not taken for "destination exists".
C17_CollectionAbortsOnError ==
    \A n \in 1..Len(hist) :
        LET h == hist[n]
        IN  /\ h.fired => h.err # ""
            /\ h.err \in CollectErrors =>
                   /\ \A i \in LogEvents(h, "insert") : i < Last(LogEvents(h, "hash"))
                   /\ LogEvents(h, "rule") = {} /\ LogEvents(h, "save") = {}

\* The stylesheets the run h collected and still tracks at its end: the keys
\* of the File Map whose entry is a .css file present under an input directory.
Stylesheets(h) ==
    {k \in DOMAIN h.post.fm : /\ Ext(h.post.fm[k].Path) = ".css"
                              /\ h.post.fm[k].Path \in Collectable(h)}

\* The original text of the stylesheet under key k with the references that
\* resolve in the File Map at the end of the run h rewritten.
FromOriginal(h, k) == Rewrite(h.in[h.post.fm[k].Path], h.post.fm[k], h.post.fm).text

\* C18: after a successful run, also one over an output root that earlier runs
\* populated, the output copy of every tracked stylesheet is its original text
\* with exactly the references that resolve now rewritten: the original bytes
\* when none resolves.
C18_RewriteFromOriginal ==
    \A n \in 1..Len(hist) :
        LET h == hist[n]
        IN  (h.err = "" /\ h.faults = 0) =>
                \A k \in Stylesheets(h) :
                    /\ h.post.fm[k].StoragePath \in DOMAIN h.post.out
                    /\ h.post.out[h.post.fm[k].StoragePath] = FromOriginal(h, k)

\* The step is a visit of the walk function that found the destination dst of
\* the file src in the output tree and skipped the copy: it hashed, inserted
\* the entry and made no call of copyFile.
SkippedCopy(src, dst) ==
    /\ run.pc = "collect"
    /\ src = Head(run.walk)[2]
    /\ dst \in DOMAIN outFS
    /\ Len(log') = Len(log) + 2
    /\ log'[Len(log')] = Event("insert", TrimPrefix(src, Head(run.walk)[1]), dst)

\* C19: whenever the collector skips the copy of a file because its
\* destination exists, the bytes at the destination are the present bytes of
\* the source file.
C19_SkipCopySoundness ==
    [][\A src \in DOMAIN inFS : \A dst \in DOMAIN outFS :
           SkippedCopy(src, dst) => outFS[dst] = inFS[src]]_vars

\* The file that holds the key k in the run h: the one in the last input dir
\* that has the relative path.
HolderOf(h, k) == h.dirs[Last(Holders(h, k))] \o k

\* Two successive successful runs in which the same file holds the key k, its
\* bytes differing between the runs.
ContentChanged(old, new, k) ==
    /\ old.err = "" /\ new.err = ""
    /\ k \in Held(old) /\ k \in Held(new)
    /\ HolderOf(old, k) = HolderOf(new, k)
    /\ old.in[HolderOf(old, k)] # new.in[HolderOf(new, k)]

\* What a successful run leaves: an insertion for every relative path the
\* input dirs hold, and, for a key whose file changed since the run before,
\* the hashed path of the new bytes, the old hashed copy still in the output tree.
Converged ==
    /\ \A n \in 1..Len(hist) :
           hist[n].err = "" =>
               Held(hist[n]) \subseteq
                   {hist[n].log[i].a : i \in LogEvents(hist[n], "insert")}
    /\ Len(hist) = 2 =>
           \A k \in Held(hist[1]) :
               ContentChanged(hist[2], hist[1], k) =>
                   /\ Resolve(TRUE, hist[1].post.fm, k)
                          = HashedRel(k, hist[1].in[HolderOf(hist[1], k)])
                   /\ Resolve(TRUE, hist[1].post.fm, k) # Resolve(TRUE, hist[2].post.fm, k)
                   /\ hist[2].post.fm[k].StoragePath \in DOMAIN hist[2].post.out
                          => hist[2].post.fm[k].StoragePath \in DOMAIN hist[1].post.out

\* C20: every run inserts or replaces the File Map entry of each file it
\* visits, a copy made or not, so after a file's content changes a re-run makes
\* Resolve return the new hashed path; and no step of any run removes a file
\* from the output tree, so the old hashed copy is still there.
C20_ConvergenceWithoutGC ==
    /\ []Converged
    /\ [][DOMAIN outFS \subseteq DOMAIN outFS']_vars

C20_Witness ==
    /\ Len(hist) = 2
    /\ ContentChanged(hist[2], hist[1], "img/pix.png")
    /\ LogEvents(hist[1], "copy") # {}
    /\ hist[2].post.fm["img/pix.png"].StoragePath \in DOMAIN hist[1].post.out
    /\ hist[1].post.fm["img/pix.png"].StoragePath \in DOMAIN hist[1].post.out
    /\ hist[1].post.fm["img/pix.png"].StoragePath # hist[2].post.fm["img/pix.png"].StoragePath

\* C22: after every successful run the keys of the File Map and of the saved
\* manifest are exactly the relative paths of the files present in the input
\* roots during the run; entries of files no longer in any input root are gone.
C22_ManifestReflectsInputs ==
    \A n \in 1..Len(hist) :
        LET h == hist[n]
        IN  (h.err = "" /\ h.faults = 0) =>
                /\ DOMAIN h.post.fm = Held(h)
                /\ DOMAIN h.post.man.paths = Held(h)

\* The output paths the references of the output stylesheet dst name with a
\* hashed file name, one the File Map holds for some entry.
HashedTargets(dst) ==
    {Join(Dir(dst), m.url) :
        m \in {r \in References(outFS[dst]) :
                  /\ ~ignoreRegex(r.url)
                  /\ \E k \in DOMAIN FilesMap :
                         Base(FilesMap[k].StoragePath) = Base(r.url)}}

\* The output paths the manifest on disk records.
Recorded ==
    IF manifest.state # "ok" THEN {}
    ELSE {OutputDir \o DecodeString(manifest.paths[e]) : e \in DOMAIN manifest.paths}

\* C23: in every state that runs of CollectStatic reach, failed ones and
\* edits of the inputs between them included, every hashed file name written
\* into an output stylesheet and every output path the manifest on disk
\* records names a file of the output tree.
C23_NoDanglingHashedNames ==
    /\ \A dst \in {p \in DOMAIN outFS : Ext(p) = ".css"} :
           HashedTargets(dst) \subseteq DOMAIN outFS
    /\ Recorded \subseteq DOMAIN outFS

----------------------------------------------------------------------------
\* Properties of the storage in use (ServeSpec). Every call sets ret and
\* Open and Resolve change nothing else, so a state with ret.op = "Open" is
\* the state the call ran in.

HexRun(s) == \A i \in 1..Len(s) : Contains(HexDigits, Char(s, i))

\* s is p with a hex digest put before the extension: <dir>/<stem>.<digest><ext>.
HashedForm(p, s) ==
    LET stem == TrimSuffix(p, Ext(p))
    IN  /\ Len(s) = Len(p) + 1 + SumDigits
        /\ HasPrefix(s, stem \o ".")
        /\ HasSuffix(s, Ext(p))
        /\ HexRun(SubSeq(s, Len(stem) + 2, Len(stem) + 1 + SumDigits))

\* C5: enabled, Resolve(p) is the output relative path of the entry keyed by
\* p, of the form <dir>/<stem>.<hex digest><ext>, and "" when p is no key;
\* disabled, Resolve(p) is p; Resolve never changes the File Map.
C5_ResolveSemantics ==
    [][ret'.op = "Resolve" =>
          /\ FilesMap' = FilesMap
          /\ IF ~Enabled THEN ret'.str = ret'.arg
             ELSE IF ret'.arg \in DOMAIN FilesMap
             THEN /\ ret'.str = FilesMap[ret'.arg].StorageRelPath
                  /\ HashedForm(ret'.arg, ret'.str)
             ELSE ret'.str = ""]_vars

C5_Witness ==
    /\ ret.op = "Resolve" /\ Enabled
    /\ ret.arg = "css/style.css"
    /\ ret.arg \in DOMAIN FilesMap
    /\ HashedForm(ret.arg, ret.str)

\* What the manifest keeps of a File Map: key -> output relative path.
Projection(fm) == [k \in DOMAIN fm |-> fm[k].StorageRelPath]

\* C6: loading the manifest a successful run saved yields a File Map with the
\* keys of the saved one, each mapped to the same output relative path, the
\* entries carrying the two relative paths and nothing else.
C6_ManifestRoundTrip ==
    (/\ ret.op \in {"LoadManifest", "NewStorage"} /\ ret.err = ""
     /\ Len(hist) = 1 /\ hist[1].err = ""
     /\ manifest = hist[1].post.man)
    => /\ Projection(FilesMap) = Projection(hist[1].post.fm)
       /\ \A k \in DOMAIN FilesMap :
              /\ FilesMap[k].RelPath = k
              /\ FilesMap[k].Path = "" /\ FilesMap[k].StoragePath = ""

\* C7: LoadManifest with no document fails with not-found; a load of a
\* document of another schema version fails with ErrManifestVersionMismatch
\* and makes none of its paths resolvable; neither rewrites the document.
C7_ManifestLoadOutcomes ==
    [][/\ (ret'.op = "LoadManifest" /\ manifest.state = "absent") =>
              /\ ret'.err = "ENOENT"
              /\ FilesMap' = FilesMap
              /\ manifest' = manifest
       /\ (/\ ret'.op \in {"LoadManifest", "NewStorage"}
           /\ manifest.state = "ok"
           /\ manifest.version # ManifestVersion) =>
              /\ ret'.err = "ErrManifestVersionMismatch"
              /\ FilesMap' = FilesMap
              /\ manifest' = manifest
              /\ \A p \in DOMAIN manifest.paths :
                     DecodeString(p) \notin DOMAIN FilesMap =>
                         Resolve(TRUE, FilesMap', DecodeString(p)) = ""]_vars

C7_Witness ==
    /\ ret.op = "LoadManifest"
    /\ ret.err = "ErrManifestVersionMismatch"
    /\ manifest.version # ManifestVersion
    /\ "old.css" \in DOMAIN manifest.paths
    /\ Resolve(TRUE, FilesMap, "old.css") = ""

\* The roots Open looks in, in order.
Roots == IF Enabled THEN <<OutputDir>> ELSE inputDirs

\* The roots whose http.Dir reports something other than not-found.
Hits(name, deny) == {i \in 1..Len(Roots) : DirOpen(Roots[i], name, deny).err # "ENOENT"}

First(S) == CHOOSE i \in S : \A j \in S : i <= j

\* What the first such root reports, not-found when there is none.
Answer(name, deny) ==
    IF Hits(name, deny) = {} THEN [file |-> NilFile, err |-> "ENOENT"]
    ELSE DirOpen(Roots[First(Hits(name, deny))], name, deny)

\* C8: a request that names a directory gets no file and a not-exist error
\* when listing is disabled, as a missing path does, in both modes, and the
\* directory when listing is enabled; a regular file is returned either way.
C8_ListingSuppression ==
    (ret.op = "Open" /\ Len(Roots) > 0) =>
        LET a == Answer(ret.arg, ret.deny)
        IN  /\ (a.err = "" /\ a.file.kind = "dir") =>
                   IF OutputDirList THEN ret.err = "" /\ ret.file = a.file
                   ELSE ret.err = "ENOENT" /\ ret.file = NilFile
            /\ (a.err = "" /\ a.file.kind = "file") =>
                   ret.err = "" /\ ret.file = a.file
            /\ a.err = "ENOENT" => ret.err = "ENOENT" /\ ret.file = NilFile

C8_Witness ==
    /\ ret.op = "Open" /\ ~OutputDirList /\ ~Enabled
    /\ ret.arg = "img"
    /\ Answer(ret.arg, ret.deny).file.kind = "dir"
    /\ ret.err = "ENOENT" /\ ret.file = NilFile

\* The number of roots a passthrough Open tries: up to the first that
\* reports something other than not-found.
Stop(name, deny) ==
    IF Hits(name, deny) = {} THEN Len(Roots) ELSE First(Hits(name, deny))

\* The first successful open is of a directory and listing is disabled.
Suppressed(a) == ~OutputDirList /\ a.err = "" /\ a.file.kind = "dir"

\* C9 as stated: disabled, Open tries the input roots in the order added,
\* returns the file of the first root where the open succeeds, returns
\* not-found only if every root reported not-found, and returns any other
\* error at once; enabled, it consults the output root alone.
C9_FirstSuccessOrNotFound ==
    ret.op = "Open" =>
        LET a == Answer(ret.arg, ret.deny)
        IN  /\ Enabled => ret.tried = <<OutputDir>>
            /\ ~Enabled =>
                   /\ ret.tried = SubSeq(inputDirs, 1, Stop(ret.arg, ret.deny))
                   /\ (Len(inputDirs) > 0 /\ a.err = "") =>
                          ret.err = "" /\ ret.file = a.file
                   /\ a.err \notin {"", "ENOENT"} => ret.err = a.err /\ ret.file = NilFile
                   /\ ret.err = "ENOENT" => Hits(ret.arg, ret.deny) = {}

\* C9, amended: as above, except that with listing disabled a first
\* successful open of a directory yields no file and a not-found error.
C9_PassthroughOpenOrder ==
    ret.op = "Open" =>
        LET a == Answer(ret.arg, ret.deny)
        IN  /\ Enabled =>
                   /\ ret.tried = <<OutputDir>>
                   /\ ret.err = "" => HasPrefix(ret.file.path, OutputDir)
            /\ ~Enabled =>
                   /\ ret.tried = SubSeq(inputDirs, 1, Stop(ret.arg, ret.deny))
                   /\ (Len(inputDirs) > 0 /\ a.err = "" /\ ~Suppressed(a)) =>
                          ret.err = "" /\ ret.file = a.file
                   /\ Suppressed(a) => ret.err = "ENOENT" /\ ret.file = NilFile
                   /\ a.err \notin {"", "ENOENT"} => ret.err = a.err /\ ret.file = NilFile
                   /\ ret.err = "ENOENT" =>
                          Hits(ret.arg, ret.deny) = {} \/ Suppressed(a)

C9_Witness ==
    /\ ret.op = "Open" /\ ~Enabled
    /\ ret.err = "EACCES"
    /\ Len(ret.tried) = 1 /\ Len(inputDirs) = 2
    /\ DirOpen(inputDirs[2], ret.arg, ret.deny).err = ""

\* C21: in every state of the storage and for every request path, Open
\* returns a file and a nil error, or no file and an error; it never returns
\* neither, and never calls a method of a nil file.
C21_OpenResultWellFormed ==
    ret.op = "Open" =>
        \/ ret.file # NilFile /\ ret.err = ""
        \/ ret.file = NilFile /\ ret.err \notin {"", "panic"}

====
